---- MODULE Spec2Model ----
(***************************************************************************)
(* A model of src/webflow.py: the WebflowApi client.                       *)
(*                                                                         *)
(* The client is a class with two class attributes (WEBFLOW_URL, HEADERS), *)
(* one HTTP primitive (_webflow_request) and seventeen operations that     *)
(* each build a path / JSON body and delegate to the primitive.            *)
(* list_items(all=True) is the only operation with a loop.                 *)
(*                                                                         *)
(* Text that ends up in a URL is modelled as a sequence of one-character   *)
(* strings, so that f-string formatting is concatenation and the query     *)
(* string of a request can be parsed back from the URL that was sent.      *)
(* The upstream service is the environment: it answers each request with   *)
(* a transport failure or with a status and a body.                        *)
(***************************************************************************)
EXTENDS Integers, Sequences, FiniteSets, TLC

VARIABLES
    settings,      \* django.conf.settings: the WEBFLOW_API_KEY setting
    cls,           \* class body of WebflowApi: "undefined", "defined", "error"
    WEBFLOW_URL,   \* class attribute WebflowApi.WEBFLOW_URL
    HEADERS,       \* class attribute WebflowApi.HEADERS
    pc,            \* "idle", "waiting" (a request is in flight), "done" (the call ended)
    call,          \* the operation in progress and its arguments
    offset,        \* local variable offset of list_items
    all_items,     \* local variable all_items of list_items
    resp,          \* local variable resp of list_items
    log,           \* requests handed to requests.request since the last call began
    resps,         \* how each of these requests ended: "ok" or the exception
    body,          \* the response the upstream gave to the latest request
    outcome,       \* what the current call returned or raised
    srvN,          \* upstream: number of items the collection holds
    srvTotal       \* upstream: the 'total' it reports on every page

vars == <<settings, cls, WEBFLOW_URL, HEADERS, pc, call, offset, all_items,
          resp, log, resps, body, outcome, srvN, srvTotal>>

----------------------------------------------------------------------------
(* Bounds of the model *)

MaxFullPages == 2     \* the upstream holds up to MaxFullPages full pages plus a remainder
MaxSkew == 1          \* the reported total over-reports by 0 .. MaxSkew pages' worth
MaxRequests == 5      \* page requests explored per list_items(all=True) call

(* Program constants *)

Stride == 100         \* offset += 100
DefaultLimit == 100   \* limit: int = 100
DefaultOffset == 0    \* offset: int = 0

----------------------------------------------------------------------------
(* Text *)

Min(a, b) == IF a < b THEN a ELSE b
Max(a, b) == IF a > b THEN a ELSE b

DigitChar(d) == <<"0", "1", "2", "3", "4", "5", "6", "7", "8", "9">>[d + 1]

RECURSIVE Str(_)
\* str(n) as the f-string formats an int: decimal digits, '-' for negatives
Str(n) ==
    IF n < 0 THEN <<"-">> \o Str(-n)
    ELSE IF n < 10 THEN <<DigitChar(n)>>
    ELSE Str(n \div 10) \o <<DigitChar(n % 10)>>

\* f"Bearer {settings.WEBFLOW_API_KEY}"
Bearer(key) == "Bearer " \o key.str

UrlLiteral == <<"h", "t", "t", "p", "s", ":", "/", "/", "a", "p", "i", ".",
                "w", "e", "b", "f", "l", "o", "w", ".", "c", "o", "m">>

\* HeadersLiteral with the key alone as Authorization, the scheme forgotten
HeadersLiteral_NoScheme(key) ==
    ("Accept-Version" :> "1.0.0") @@
    ("Authorization" :> key.str) @@
    ("content-type" :> "application/json")

\* the dict literal assigned to HEADERS in the class body
HeadersLiteral(key) ==
    ("Accept-Version" :> "1.0.0") @@
    ("Authorization" :> Bearer(key)) @@
    ("content-type" :> "application/json")

----------------------------------------------------------------------------
(* Inputs *)

\* WEBFLOW_API_KEY: not set at all, set to '' or set to a key
KeyAbsent == [present |-> FALSE, str |-> ""]
KeyEmpty  == [present |-> TRUE,  str |-> ""]
KeySet    == [present |-> TRUE,  str |-> "k3y"]
Settings  == {KeyAbsent, KeyEmpty, KeySet}

Ids == {<<"5", "f">>, <<"a", "0", "9">>}
Limits == {7, DefaultLimit}
Offsets == {DefaultOffset, 150}
Remainders == {0, 1, 50}
ItemCounts == {p * Stride + r : p \in 0..MaxFullPages, r \in Remainders}
Skews == {s * Stride : s \in 0..MaxSkew}

NoJson == [nojson |-> TRUE]
Payloads == {[name |-> "A"], [name |-> "B", slug |-> "b"]}
DomainLists == {<<"a.com", "b.com">>, <<"a.com">>}
Docs == {[msg |-> "m", code |-> 7]}
Statuses == {200, 304, 404, 500}

NoValue == [none |-> TRUE]
NoCall == [op |-> "none", collection_id |-> <<>>, item_id |-> <<>>,
           site_id |-> <<>>, webhook_id |-> <<>>, limit |-> DefaultLimit,
           offset |-> DefaultOffset, all |-> FALSE, live |-> FALSE,
           arg |-> NoJson]
NoOutcome == [kind |-> "none", exc |-> "", status |-> 0, val |-> NoValue]
NoBody == [transport |-> FALSE, status |-> 0, valid |-> FALSE, json |-> NoValue]

----------------------------------------------------------------------------
(* The upstream *)

\* the page of the collection that starts after `off` items and holds at most
\* `lim` of them; item k of the collection is the number k
ServerItems(n, lim, off) ==
    [i \in 1..Max(0, Min(lim, n - off)) |-> off + i]

\* the envelope of a page: {items, count, limit, offset, total}
ServerPage(n, total, lim, off) ==
    [items |-> ServerItems(n, lim, off),
     count |-> Len(ServerItems(n, lim, off)),
     limit |-> lim, offset |-> off, total |-> total]

Transport == [transport |-> TRUE, status |-> 0, valid |-> FALSE, json |-> NoValue]
Text(status) == [transport |-> FALSE, status |-> status, valid |-> FALSE, json |-> NoValue]
Json(status, doc) == [transport |-> FALSE, status |-> status, valid |-> TRUE, json |-> doc]

----------------------------------------------------------------------------
(* _webflow_request *)

Returned(v) == [kind |-> "returned", exc |-> "", status |-> 0, val |-> v]
Raised(e, s) == [kind |-> "raised", exc |-> e, status |-> s, val |-> NoValue]

\* the keyword arguments of requests.request(method, url, headers=..., **kwargs)
Request(method, path, json) ==
    [method |-> method,
     url |-> WEBFLOW_URL \o <<"/">> \o path,
     headers |-> HEADERS,
     json |-> json]

\* Response.raise_for_status(): HTTPError for 4xx and 5xx
RaisesForStatus(status) == status >= 400 /\ status < 600

\* what _webflow_request does with the answer r to its request
webflow_request(r) ==
    IF r.transport THEN Raised("ConnectionError", 0)          \* requests.request raises
    ELSE IF ~r.valid THEN Raised("JSONDecodeError", 0)        \* print(res.json())
    ELSE IF RaisesForStatus(r.status) THEN Raised("HTTPError", r.status)
    ELSE Returned(r.json)                                     \* return res.json()

----------------------------------------------------------------------------
(* How the upstream reads the URL it is sent *)

\* the first position of character ch in s, 0 when there is none
IndexOf(s, ch) ==
    LET at == {i \in 1..Len(s) : s[i] = ch}
    IN IF at = {} THEN 0 ELSE CHOOSE i \in at : \A j \in at : i <= j

\* s up to the first ch, and s after it
Before(s, ch) ==
    LET k == IndexOf(s, ch) IN IF k = 0 THEN s ELSE SubSeq(s, 1, k - 1)
After(s, ch) ==
    LET k == IndexOf(s, ch) IN IF k = 0 THEN <<>> ELSE SubSeq(s, k + 1, Len(s))

RECURSIVE Split(_, _)
\* the pieces of s between occurrences of ch
Split(s, ch) ==
    IF IndexOf(s, ch) = 0 THEN <<s>>
    ELSE <<Before(s, ch)>> \o Split(After(s, ch), ch)

\* the URL without its query string, and the query string (after the first '?')
UrlPath(url) == Before(url, "?")
UrlQuery(url) == After(url, "?")
HasQuery(url) == IndexOf(url, "?") # 0

\* the query parameters in order, each <<name, value>>
UrlParams(url) ==
    LET pieces == Split(UrlQuery(url), "&")
    IN IF UrlQuery(url) = <<>> THEN <<>>
       ELSE [i \in 1..Len(pieces) |->
               <<Before(pieces[i], "="), After(pieces[i], "=")>>]

DigitValue(c) ==
    CASE c = "0" -> 0 [] c = "1" -> 1 [] c = "2" -> 2 [] c = "3" -> 3
      [] c = "4" -> 4 [] c = "5" -> 5 [] c = "6" -> 6 [] c = "7" -> 7
      [] c = "8" -> 8 [] c = "9" -> 9

RECURSIVE Num(_)
\* the number a string of decimal digits denotes
Num(s) ==
    IF s = <<>> THEN 0
    ELSE 10 * Num(SubSeq(s, 1, Len(s) - 1)) + DigitValue(s[Len(s)])

\* the value of the query parameter called name
Param(url, name) ==
    LET ps == UrlParams(url)
        i == CHOOSE j \in 1..Len(ps) : ps[j][1] = name
    IN ps[i][2]

\* the answers the upstream can give to request req: no answer at all, or a
\* status with a body that is not JSON, a JSON document, or (for a listing of
\* items) the page of the collection the query string asks for
IsListing(req) ==
    /\ req.method = "GET"
    /\ Len(UrlParams(req.url)) = 2
    /\ UrlParams(req.url)[1][1] = <<"l", "i", "m", "i", "t">>
    /\ UrlParams(req.url)[2][1] = <<"o", "f", "f", "s", "e", "t">>

PageFor(req) ==
    ServerPage(srvN, srvTotal,
               Num(Param(req.url, <<"l", "i", "m", "i", "t">>)),
               Num(Param(req.url, <<"o", "f", "f", "s", "e", "t">>)))

Answers(req) ==
    {Transport}
    \cup {Text(s) : s \in Statuses}
    \cup {Json(s, d) : s \in Statuses, d \in Docs}
    \cup (IF IsListing(req) THEN {Json(s, PageFor(req)) : s \in Statuses} ELSE {})

----------------------------------------------------------------------------
(* The class body *)

Init ==
    /\ settings \in Settings
    /\ cls = "undefined"
    /\ WEBFLOW_URL = <<>>
    /\ HEADERS = <<>>
    /\ pc = "idle"
    /\ call = NoCall
    /\ offset = 0
    /\ all_items = <<>>
    /\ resp = NoValue
    /\ log = <<>>
    /\ resps = <<>>
    /\ body = NoBody
    /\ outcome = NoOutcome
    /\ srvN = 0
    /\ srvTotal = 0

\* class WebflowApi: the class body runs once, at import. Reading a setting
\* that is not there raises AttributeError and leaves the class undefined.
ClassBody ==
    /\ cls = "undefined"
    /\ IF settings.present
         THEN /\ cls' = "defined"
              /\ WEBFLOW_URL' = UrlLiteral
              /\ HEADERS' = HeadersLiteral(settings)
         ELSE /\ cls' = "error"
              /\ UNCHANGED <<WEBFLOW_URL, HEADERS>>
    /\ UNCHANGED <<settings, pc, call, offset, all_items, resp, log, resps,
                   body, outcome, srvN, srvTotal>>

----------------------------------------------------------------------------
(* Operations: each builds its request and enters _webflow_request *)

\* an operation is called with arguments c and hands req to requests.request
Begin(c, req, n, total) ==
    /\ cls = "defined"
    /\ pc = "idle"
    /\ call' = c
    /\ offset' = c.offset
    /\ all_items' = <<>>
    /\ resp' = NoValue
    /\ log' = <<req>>
    /\ resps' = <<>>
    /\ body' = NoBody
    /\ outcome' = NoOutcome
    /\ pc' = "waiting"
    /\ srvN' = n
    /\ srvTotal' = total
    /\ UNCHANGED <<settings, cls, WEBFLOW_URL, HEADERS>>

SitePath(site_id) == <<"s", "i", "t", "e", "s", "/">> \o site_id
CollectionPath(collection_id) ==
    <<"c", "o", "l", "l", "e", "c", "t", "i", "o", "n", "s", "/">> \o collection_id
ItemsPath(collection_id) ==
    CollectionPath(collection_id) \o <<"/", "i", "t", "e", "m", "s">>
ItemPath(collection_id, item_id) ==
    ItemsPath(collection_id) \o <<"/">> \o item_id
WebhooksPath(site_id) ==
    SitePath(site_id) \o <<"/", "w", "e", "b", "h", "o", "o", "k", "s">>

\* ListItemsPath with limit and offset formatted into each other's place
ListItemsPath_Swapped(collection_id, limit, off) ==
    ItemsPath(collection_id)
        \o <<"?", "l", "i", "m", "i", "t", "=">> \o Str(off)
        \o <<"&", "o", "f", "f", "s", "e", "t", "=">> \o Str(limit)

\* f'collections/{collection_id}/items?limit={limit}&offset={offset}'
ListItemsPath(collection_id, limit, off) ==
    ItemsPath(collection_id)
        \o <<"?", "l", "i", "m", "i", "t", "=">> \o Str(limit)
        \o <<"&", "o", "f", "f", "s", "e", "t", "=">> \o Str(off)

\* LiveSuffix that appends ?live=true whatever live is
LiveSuffix_Always(live) ==
    <<"?", "l", "i", "v", "e", "=", "t", "r", "u", "e">>

\* l = '?live=true' if live else ''
LiveSuffix(live) ==
    IF live THEN <<"?", "l", "i", "v", "e", "=", "t", "r", "u", "e">> ELSE <<>>

\* data = {}; data['fields'] = item_data
FieldsBody(item_data) == [fields |-> item_data]

info ==
    Begin([NoCall EXCEPT !.op = "info"],
          Request("GET", <<"i", "n", "f", "o">>, NoJson), 0, 0)

list_sites ==
    Begin([NoCall EXCEPT !.op = "list_sites"],
          Request("GET", <<"s", "i", "t", "e", "s">>, NoJson), 0, 0)

get_site ==
    \E site_id \in Ids :
        Begin([NoCall EXCEPT !.op = "get_site", !.site_id = site_id],
              Request("GET", SitePath(site_id), NoJson), 0, 0)

publish_site ==
    \E site_id \in Ids, domain_names \in DomainLists :
        Begin([NoCall EXCEPT !.op = "publish_site", !.site_id = site_id,
                             !.arg = [domains |-> domain_names]],
              Request("POST",
                      SitePath(site_id) \o <<"/", "p", "u", "b", "l", "i", "s", "h">>,
                      [domains |-> domain_names]), 0, 0)

list_domains ==
    \E site_id \in Ids :
        Begin([NoCall EXCEPT !.op = "list_domains", !.site_id = site_id],
              Request("GET",
                      SitePath(site_id) \o <<"/", "d", "o", "m", "a", "i", "n", "s">>,
                      NoJson), 0, 0)

list_collections ==
    \E site_id \in Ids :
        Begin([NoCall EXCEPT !.op = "list_collections", !.site_id = site_id],
              Request("GET",
                      SitePath(site_id)
                        \o <<"/", "c", "o", "l", "l", "e", "c", "t", "i", "o", "n", "s">>,
                      NoJson), 0, 0)

get_collection ==
    \E collection_id \in Ids :
        Begin([NoCall EXCEPT !.op = "get_collection",
                             !.collection_id = collection_id],
              Request("GET", CollectionPath(collection_id), NoJson), 0, 0)

\* the request of list_items(..., all=False)
list_items_request(collection_id, limit, off) ==
    Request("GET", ListItemsPath(collection_id, limit, off), NoJson)

\* page_request that passes the caller's limit on
page_request_PassesLimit(collection_id, limit, off) ==
    list_items_request(collection_id, limit, off)

\* the request of self.list_items(collection_id, offset=offset, all=False),
\* the call list_items(..., all=True) makes for each page: limit is not passed
page_request(collection_id, limit, off) ==
    list_items_request(collection_id, DefaultLimit, off)

list_items ==
    \E collection_id \in Ids, limit \in Limits, off \in Offsets,
       n \in ItemCounts, skew \in Skews :
        Begin([NoCall EXCEPT !.op = "list_items",
                             !.collection_id = collection_id,
                             !.limit = limit, !.offset = off],
              list_items_request(collection_id, limit, off), n, n + skew)

list_items_all ==
    \E collection_id \in Ids, limit \in Limits, off \in Offsets,
       n \in ItemCounts, skew \in Skews :
        Begin([NoCall EXCEPT !.op = "list_items",
                             !.collection_id = collection_id,
                             !.limit = limit, !.offset = off, !.all = TRUE],
              page_request(collection_id, limit, off), n, n + skew)

get_item ==
    \E collection_id \in Ids, item_id \in Ids :
        Begin([NoCall EXCEPT !.op = "get_item",
                             !.collection_id = collection_id, !.item_id = item_id],
              Request("GET", ItemPath(collection_id, item_id), NoJson), 0, 0)

create_item ==
    \E collection_id \in Ids, item_data \in Payloads, live \in BOOLEAN :
        Begin([NoCall EXCEPT !.op = "create_item",
                             !.collection_id = collection_id,
                             !.arg = item_data, !.live = live],
              Request("POST", ItemsPath(collection_id) \o LiveSuffix(live),
                      FieldsBody(item_data)), 0, 0)

update_item ==
    \E collection_id \in Ids, item_id \in Ids, item_data \in Payloads,
       live \in BOOLEAN :
        Begin([NoCall EXCEPT !.op = "update_item",
                             !.collection_id = collection_id, !.item_id = item_id,
                             !.arg = item_data, !.live = live],
              Request("PUT", ItemPath(collection_id, item_id) \o LiveSuffix(live),
                      FieldsBody(item_data)), 0, 0)

patch_item ==
    \E collection_id \in Ids, item_id \in Ids, item_data \in Payloads,
       live \in BOOLEAN :
        Begin([NoCall EXCEPT !.op = "patch_item",
                             !.collection_id = collection_id, !.item_id = item_id,
                             !.arg = item_data, !.live = live],
              Request("PATCH", ItemPath(collection_id, item_id) \o LiveSuffix(live),
                      FieldsBody(item_data)), 0, 0)

remove_item ==
    \E collection_id \in Ids, item_id \in Ids :
        Begin([NoCall EXCEPT !.op = "remove_item",
                             !.collection_id = collection_id, !.item_id = item_id],
              Request("DELETE", ItemPath(collection_id, item_id), NoJson), 0, 0)

list_webhooks ==
    \E site_id \in Ids :
        Begin([NoCall EXCEPT !.op = "list_webhooks", !.site_id = site_id],
              Request("GET", WebhooksPath(site_id), NoJson), 0, 0)

get_webhook ==
    \E site_id \in Ids, webhook_id \in Ids :
        Begin([NoCall EXCEPT !.op = "get_webhook", !.site_id = site_id,
                             !.webhook_id = webhook_id],
              Request("GET", WebhooksPath(site_id) \o <<"/">> \o webhook_id, NoJson),
              0, 0)

create_webhook ==
    \E site_id \in Ids, filter \in Payloads :
        Begin([NoCall EXCEPT !.op = "create_webhook", !.site_id = site_id,
                             !.arg = filter],
              Request("POST", WebhooksPath(site_id),
                      [triggerType |-> "form_submission",
                       url |-> "https://example.org/hook",
                       filter |-> filter]), 0, 0)

remove_webhook ==
    \E site_id \in Ids, webhook_id \in Ids :
        Begin([NoCall EXCEPT !.op = "remove_webhook", !.site_id = site_id,
                             !.webhook_id = webhook_id],
              Request("DELETE", WebhooksPath(site_id) \o <<"/">> \o webhook_id, NoJson),
              0, 0)

----------------------------------------------------------------------------
(* The answer arrives *)

\* how a request ended, for the record kept in resps
Ended(res) == IF res.kind = "raised" THEN res.exc ELSE "ok"

\* every operation but list_items(all=True) returns what _webflow_request
\* returns, or lets its exception through
Return ==
    /\ pc = "waiting"
    /\ ~(call.op = "list_items" /\ call.all)
    /\ \E r \in Answers(log[Len(log)]) :
          /\ body' = r
          /\ outcome' = webflow_request(r)
          /\ resps' = Append(resps, Ended(webflow_request(r)))
    /\ pc' = "done"
    /\ UNCHANGED <<settings, cls, WEBFLOW_URL, HEADERS, call, offset, all_items,
                   resp, log, srvN, srvTotal>>

\* while(len(all_items) < resp['total'])
MorePages(items, page) == Len(items) < page.total

\* Assemble that leaves 'count' as the last page had it
Assemble_StaleCount(page, items) == [page EXCEPT !.items = items]

\* resp['items'] = all_items; resp['count'] = len(all_items)
Assemble(page, items) == [page EXCEPT !.items = items, !.count = Len(items)]

\* PageFailed that catches the exception and asks for the same page again
PageFailed_Retry(res) ==
    /\ Len(log) < MaxRequests
    /\ resps' = Append(resps, Ended(res))
    /\ log' = Append(log, log[Len(log)])
    /\ pc' = "waiting"
    /\ UNCHANGED <<offset, all_items, resp, outcome>>

\* an exception raised under self.list_items(...) is not caught: it ends
\* list_items(all=True), which returns nothing
PageFailed(res) ==
    /\ outcome' = res
    /\ resps' = Append(resps, Ended(res))
    /\ pc' = "done"
    /\ UNCHANGED <<offset, all_items, resp, log>>

\* resp['items'] of a JSON document that has no 'items'
PageKeyError(res) ==
    /\ outcome' = Raised("KeyError", 0)
    /\ resps' = Append(resps, Ended(res))
    /\ resp' = res.val
    /\ pc' = "done"
    /\ UNCHANGED <<offset, all_items, log>>

\* the body of the while loop up to its request: offset += 100 and the
\* next self.list_items(collection_id, offset=offset, all=False)
PageNext(res, items) ==
    /\ Len(log) < MaxRequests
    /\ all_items' = items
    /\ resp' = res.val
    /\ resps' = Append(resps, Ended(res))
    /\ offset' = offset + Stride
    /\ log' = Append(log, page_request(call.collection_id, call.limit,
                                       offset + Stride))
    /\ pc' = "waiting"
    /\ UNCHANGED outcome

\* after the loop: resp is completed and returned
PageReturn(res, items) ==
    /\ all_items' = items
    /\ resp' = Assemble(res.val, items)
    /\ resps' = Append(resps, Ended(res))
    /\ outcome' = Returned(Assemble(res.val, items))
    /\ pc' = "done"
    /\ UNCHANGED <<offset, log>>

\* list_items(all=True) gets the answer to a page request: it lets an
\* exception through, or extends all_items and either asks for the next page
\* or returns
list_items_page ==
    /\ pc = "waiting"
    /\ call.op = "list_items" /\ call.all
    /\ \E r \in Answers(log[Len(log)]) :
        LET res == webflow_request(r)
            items == all_items \o res.val.items      \* all_items.extend(resp['items'])
        IN
        /\ body' = r
        /\ IF res.kind = "raised" THEN PageFailed(res)
           ELSE IF "items" \notin DOMAIN res.val THEN PageKeyError(res)
           ELSE IF MorePages(items, res.val) THEN PageNext(res, items)
           ELSE PageReturn(res, items)
    /\ UNCHANGED <<settings, cls, WEBFLOW_URL, HEADERS, call, srvN, srvTotal>>

\* the caller has the result or the exception of the call; the locals of the
\* call are gone and the client can be called again
Finish ==
    /\ pc = "done"
    /\ pc' = "idle"
    /\ call' = NoCall
    /\ offset' = 0
    /\ all_items' = <<>>
    /\ resp' = NoValue
    /\ log' = <<>>
    /\ resps' = <<>>
    /\ body' = NoBody
    /\ outcome' = NoOutcome
    /\ srvN' = 0
    /\ srvTotal' = 0
    /\ UNCHANGED <<settings, cls, WEBFLOW_URL, HEADERS>>

----------------------------------------------------------------------------

Next ==
    \/ ClassBody
    \/ info
    \/ list_sites
    \/ get_site
    \/ publish_site
    \/ list_domains
    \/ list_collections
    \/ get_collection
    \/ list_items
    \/ list_items_all
    \/ get_item
    \/ create_item
    \/ update_item
    \/ patch_item
    \/ remove_item
    \/ list_webhooks
    \/ get_webhook
    \/ create_webhook
    \/ remove_webhook
    \/ Return
    \/ list_items_page
    \/ Finish

Spec == Init /\ [][Next]_vars

----------------------------------------------------------------------------
(* Properties *)

ListAll == call.op = "list_items" /\ call.all
Ceil(a, b) == (a + b - 1) \div b

\* what the upstream reads as limit and offset in the URL of request req
ReqLimit(req) == Num(Param(req.url, <<"l", "i", "m", "i", "t">>))
ReqOffset(req) == Num(Param(req.url, <<"o", "f", "f", "s", "e", "t">>))

\* the URL a path is requested at
UrlOf(path) == UrlLiteral \o <<"/">> \o path

\* list_items(all=True) from offset 0 against an upstream whose total is right
FromStart == ListAll /\ call.offset = 0 /\ srvTotal = srvN

\* the part of C1 that does not count the requests: one request at a time, at
\* offsets 0, 100, 200, ...; the result is the whole collection in server order
SequentialAndComplete ==
    /\ pc = "waiting" => Len(log) = Len(resps) + 1
    /\ pc = "done" => Len(log) = Len(resps)
    /\ \A i \in 1..Len(log) : ReqOffset(log[i]) = (i - 1) * 100
    /\ (pc = "done" /\ outcome.kind = "returned") =>
          /\ outcome.val.items = [i \in 1..srvN |-> i]
          /\ outcome.val.count = srvN

\* C1 as amended: list_items(all=True) from offset 0 against an upstream that
\* holds N items and reports total = N issues its page requests one after
\* another at offsets 0, 100, 200, ..., exactly max(1, ceil(N/100)) of them (one
\* request for an empty collection), and returns all N items in server order
\* with count = N.
C1_ListAllFromStart ==
    FromStart =>
        /\ SequentialAndComplete
        /\ Len(log) <= Max(1, Ceil(srvN, 100))
        /\ (pc = "done" /\ outcome.kind = "returned") =>
              Len(log) = Max(1, Ceil(srvN, 100))

C1_Witness ==
    /\ FromStart /\ pc = "done" /\ outcome.kind = "returned"
    /\ srvN = 250 /\ Len(log) = 3 /\ Len(outcome.val.items) = 250

\* C1 as stated: ... and exactly ceil(N/100) page requests are issued.
C1_AsStated ==
    FromStart =>
        /\ SequentialAndComplete
        /\ (pc = "done" /\ outcome.kind = "returned") =>
              Len(log) = Ceil(srvN, 100)

\* C2: in list_items(all=True), once a page has come back with zero items
\* while fewer items than the reported total are accumulated, the call ends:
\* it does not go on to request another page.
C2_StopsAfterEmptyPage ==
    ~ /\ ListAll /\ pc = "waiting" /\ Len(log) > 1
      /\ resp.items = <<>>
      /\ Len(all_items) < resp.total

\* a page request is in flight that cannot bring anything: it asks for items
\* beyond the last one the upstream holds, and the loop needs more items
Stuck ==
    /\ ListAll /\ pc = "waiting"
    /\ srvTotal = srvN
    /\ ReqOffset(log[Len(log)]) >= srvN
    /\ Len(all_items) < srvTotal

\* C3: against an upstream whose total is accurate and the same on every
\* page, list_items(all=True) terminates from every starting offset: the
\* accumulated length reaches the total after finitely many pages. In the
\* form a finite run refutes: the call never comes to ask for a page beyond
\* the end of the collection while it still waits for items.
C3_ReachesTotal == ~Stuck

\* in a Stuck state the page asked for is empty: the answer adds nothing to
\* all_items, and the next request asks for a page further on still
StuckGetsNothing == Stuck => PageFor(log[Len(log)]).items = <<>>

\* C4: a call whose request is answered with a status outside 200..299 raises
\* the HTTP-status error with that status, whatever the body is, and returns
\* nothing.
C4_HttpErrorForNon2xx ==
    (pc = "done" /\ ~body.transport /\ ~(body.status >= 200 /\ body.status < 300))
        => outcome = Raised("HTTPError", body.status)

\* C5: when the bearer token is missing or empty the client fails at
\* construction and no request is ever issued.
C5_NoRequestWithoutToken ==
    (~settings.present \/ settings.str = "") => log = <<>>

\* C6: create_item, update_item and patch_item send one request, by POST, PUT
\* and PATCH, whose JSON body is {"fields": P} for the payload P given, and
\* whose query string is live=true if live is true and absent if not.
C6_WriteRequest ==
    (call.op \in {"create_item", "update_item", "patch_item"}) =>
        /\ Len(log) = 1
        /\ log[1].method = (CASE call.op = "create_item" -> "POST"
                              [] call.op = "update_item" -> "PUT"
                              [] call.op = "patch_item" -> "PATCH")
        /\ DOMAIN log[1].json = {"fields"}
        /\ log[1].json.fields = call.arg
        /\ IF call.live
             THEN UrlParams(log[1].url) =
                     << <<(<<"l", "i", "v", "e">>), (<<"t", "r", "u", "e">>)>> >>
             ELSE ~HasQuery(log[1].url)

C6_Witness ==
    /\ call.op = "update_item" /\ call.live /\ pc = "done"
    /\ call.arg = [name |-> "B", slug |-> "b"]
    /\ UrlQuery(log[1].url) = <<"l", "i", "v", "e", "=", "t", "r", "u", "e">>

\* C7: the header set and the base URL stay as the class body set them, and
\* every request carries exactly Accept-Version: 1.0.0, Authorization: Bearer
\* <the configured token> and content-type: application/json.
ThreeHeaders(h) ==
    /\ DOMAIN h = {"Accept-Version", "Authorization", "content-type"}
    /\ h["Accept-Version"] = "1.0.0"
    /\ h["Authorization"] = "Bearer " \o settings.str
    /\ h["content-type"] = "application/json"

C7_HeadersFixed ==
    cls = "defined" =>
        /\ ThreeHeaders(HEADERS)
        /\ WEBFLOW_URL = UrlLiteral
        /\ \A i \in 1..Len(log) :
              /\ ThreeHeaders(log[i].headers)
              /\ SubSeq(log[i].url, 1, Len(UrlLiteral) + 1) = UrlLiteral \o <<"/">>

C7_Witness ==
    /\ pc = "done" /\ Len(log) >= 3 /\ outcome.kind = "raised"
    /\ settings.str = "k3y"
    /\ log[3].headers["Authorization"] = "Bearer k3y"

C9_ListItemsOnce ==
    (call.op = "list_items" /\ ~call.all) =>
        /\ Len(log) = 1
        /\ log[1].method = "GET"
        /\ UrlPath(log[1].url) =
              UrlOf(<<"c", "o", "l", "l", "e", "c", "t", "i", "o", "n", "s", "/">>
                    \o call.collection_id \o <<"/", "i", "t", "e", "m", "s">>)
        /\ Len(UrlParams(log[1].url)) = 2
        /\ UrlParams(log[1].url)[1][1] = <<"l", "i", "m", "i", "t">>
        /\ UrlParams(log[1].url)[2][1] = <<"o", "f", "f", "s", "e", "t">>
        /\ ReqLimit(log[1]) = call.limit
        /\ ReqOffset(log[1]) = call.offset
        /\ (pc = "done" /\ outcome.kind = "returned") => outcome.val = body.json

C9_Witness ==
    /\ call.op = "list_items" /\ ~call.all /\ pc = "done"
    /\ call.limit = 7 /\ call.offset = 150 /\ srvN = 250
    /\ outcome.kind = "returned"
    /\ "items" \in DOMAIN outcome.val
    /\ outcome.val.items = <<151, 152, 153, 154, 155, 156, 157>>

\* C10: in list_items(all=True) every page request asks for limit=100,
\* whatever limit the caller gave, and each request after the first asks for
\* an offset 100 above the one before.
C10_PageSizeIsStride ==
    ListAll =>
        \A i \in 1..Len(log) :
            /\ ReqLimit(log[i]) = 100
            /\ ReqOffset(log[i]) = call.offset + (i - 1) * 100

C10_Witness ==
    /\ ListAll /\ call.limit = 7 /\ call.offset = 150 /\ Len(log) = 3
    /\ ReqLimit(log[3]) = 100 /\ ReqOffset(log[3]) = 350

====
